---- MODULE Spec2Model ----
(***************************************************************************)
(* Payment verification and idempotency core of src/server.js:             *)
(* POST /payment_callback, POST /verify_payment, saveTransaction,          *)
(* saveVerificationLog, logToGoogleSheet and the in-memory lock set and    *)
(* success-token map.                                                      *)
(*                                                                         *)
(* Every handler is an async function.  Node runs one continuation at a    *)
(* time, so each action below is one continuation: the settling of the     *)
(* awaited remote call together with the code that runs up to the next     *)
(* await (or to the response).  att[a].pc names the await at which         *)
(* request a is suspended.                                                 *)
(*                                                                         *)
(* isPaymentAlreadyProcessed is called at server.js:60, 155 and 449; its   *)
(* only definition in the repository is the commented-out text at          *)
(* server.js:272-285, which is what IsPaymentAlreadyProcessed models.      *)
(* (With the definition left commented out the name is unbound and every   *)
(* call throws a ReferenceError; the model describes the handlers with     *)
(* the helper in place.)                                                   *)
(*                                                                         *)
(* The sheet endpoint (GSHEET_LOG_URL) and the payment gateway are         *)
(* external: a post reaches the sheet or fails, a lookup answers or        *)
(* throws, a status inquiry reports a status or fails.                     *)
(***************************************************************************)
EXTENDS Integers, Sequences, FiniteSets, TLC

\* ------------------------------------------------------------------ bounds
NAttempts == 2                 \* inbound requests per behaviour
MaxTicks == 2                  \* advances of the clock per behaviour
MaxValidations == 2            \* calls of GET /validate_success per behaviour
Attempts == 1 .. NAttempts

\* ------------------------------------------------------------------ inputs
Procs == {"proc_A", "proc_B"}  \* server processes, each with its own memory
Orders == {"order_1", "order_2"}
Payments == {"pay_1", "pay_2"}
Missing == ""                  \* a request parameter that is absent (falsy)
Forged == "deadbeef"           \* a signature that is no HMAC of any pair
RAZORPAY_KEY_SECRET == "s3cret"

\* crypto.createHmac('sha256', secret).update(order_id + "|" + payment_id).digest('hex')
GeneratedSignature(order_id, payment_id) ==
  "hmac_sha256(" \o RAZORPAY_KEY_SECRET \o "," \o order_id \o "|" \o payment_id \o ")"

Signatures == {GeneratedSignature(o, p) : o \in Orders, p \in Payments} \cup {Forged}

\* the body/query of a callback: any parameter may be absent
CallbackRequests ==
  [order_id : Orders \cup {Missing}, payment_id : Payments \cup {Missing},
   signature : Signatures \cup {Missing}]

\* the body of a direct verification
VerifyRequests == [order_id : Orders, payment_id : Payments, signature : Signatures]

\* what GET /v1/payments/{id} can report for a payment
GatewayStatuses == {"captured", "authorized"}
\* the gateway's amount for a payment, in paise
GatewayAmount(payment_id) == IF payment_id = "pay_1" THEN 49900 ELSE 99900
TOKEN_TTL == 5 * 60 * 1000
Refs == 1 .. NAttempts         \* values crypto.randomBytes(16) can produce

\* ------------------------------------------------------------------- state
VARIABLES
  processingPayments,  \* [Procs -> SUBSET Payments]: the lock set of each process
  successTokens,       \* [Procs -> set of stored tokens]: global.successTokens
  transactions,        \* the 'transactions' sheet: sequence of rows
  verification_logs,   \* the 'verification_logs' sheet: set of rows
  now,                 \* Date.now()
  att,                 \* [Attempts -> request record]: each request's position
  ticks,               \* how often the clock has advanced
  validations          \* history: the calls of GET /validate_success, in order

vars == <<processingPayments, successTokens, transactions, verification_logs, now, att,
          ticks, validations>>

Idle ==
  [kind |-> "none", proc |-> "proc_A", order_id |-> Missing, payment_id |-> Missing,
   signature |-> Missing, pc |-> "idle",
   signatureMatched |-> "unset", status |-> "unset",
   http |-> 0, body |-> "", locked |-> FALSE, commit |-> "none", token |-> 0, mintedAt |-> 0,
   posts |-> 0,
   masked |-> FALSE, processed |-> FALSE]

Init ==
  /\ processingPayments = [pr \in Procs |-> {}]
  /\ successTokens = [pr \in Procs |-> {}]
  /\ transactions = <<>>
  /\ verification_logs = {}
  /\ now = 0
  /\ att = [a \in Attempts |-> Idle]
  /\ ticks = 0
  /\ validations = <<>>

\* ----------------------------------------------------------------- helpers
\* resp.data.exists of the sheet endpoint's check_only lookup
SheetExists(order_id, payment_id) ==
  \E i \in 1 .. Len(transactions) :
    /\ transactions[i].order_id = order_id
    /\ transactions[i].payment_id = payment_id
    /\ transactions[i].status = "SUCCESS"

\* how the lookup's axios.post can settle
LookupOutcomes == {"answered", "threw"}

\* isPaymentAlreadyProcessed: resp.data.exists when the lookup answers, false
\* when it throws ("fail-safe: allow once")
IsPaymentAlreadyProcessed(order_id, payment_id, outcome) ==
  IF outcome = "answered" THEN SheetExists(order_id, payment_id) ELSE FALSE

\* History: request r after a lookup; masked records that a lookup threw while
\* the sheet held a SUCCESS row of the pair.  (processed records whether the
\* sheet held one when the request arrived.)
Looked(r, outcome) ==
  [r EXCEPT !.masked = @ \/ (outcome = "threw" /\ SheetExists(r.order_id, r.payment_id))]

\* Mutation of ParamsMissing: only the payment id is required.
ParamsMissing_PaymentOnly(req) == req.payment_id = Missing

\* !razorpay_payment_id || !razorpay_order_id || !razorpay_signature
ParamsMissing(req) ==
  req.payment_id = Missing \/ req.order_id = Missing \/ req.signature = Missing

\* Mutation of GateKey: the lock set is keyed by the pair.
GateKey_Pair(req) == req.order_id \o "|" \o req.payment_id

\* the key under which a callback is held in processingPayments:
\* razorpay_payment_id alone
GateKey(req) == req.payment_id

\* Mutation of GateBusy: the has() test is dropped.
GateBusy_NeverBusy(pr, payment_id) == FALSE

\* processingPayments.has(razorpay_payment_id)
GateBusy(pr, payment_id) == payment_id \in processingPayments[pr]

\* Mutation of Acquire: the add is left out.
Acquire_Skipped(locks, payment_id) == locks

\* processingPayments.add(razorpay_payment_id)
Acquire(locks, payment_id) == locks \cup {payment_id}

\* Mutation of EarlyReturn: the 400/409 answers run the delete of the finally block.
EarlyReturn_Releases(locks, payment_id) == locks \ {payment_id}

\* return res.status(400 | 409) before the try statement: the finally block
\* does not run and the lock set is left as it is
EarlyReturn(locks, payment_id) == locks

\* Mutation of Release: the finally block clears the whole set.
Release_All(locks, payment_id) == {}

\* Mutation of Release: the finally block deletes nothing.
Release_Forgotten(locks, payment_id) == locks

\* processingPayments.delete(razorpay_payment_id)
Release(locks, payment_id) == locks \ {payment_id}

\* generated_signature === signature
SignatureMatched(order_id, payment_id, signature) ==
  IF GeneratedSignature(order_id, payment_id) = signature THEN "true" ELSE "false"

\* Mutation of PaymentCaptured: the status test is dropped.
PaymentCaptured_AnyStatus(status) == TRUE

\* paymentResp.data.status !== "captured", negated
PaymentCaptured(status) == status = "captured"

\* the answers of /verify_payment
AlreadyProcessedResponse ==
  [http |-> 200, valid |-> FALSE, reason |-> "Payment already processed"]
SignatureMismatchResponse ==
  [http |-> 200, valid |-> FALSE, reason |-> "Signature mismatch"]
NotCapturedResponse ==
  [http |-> 200, valid |-> FALSE, reason |-> "Payment not captured"]
ValidResponse ==
  [http |-> 200, valid |-> TRUE, reason |-> "valid"]
\* Mutation of StatusApiFailedResponse: the catch block answers as if captured.
StatusApiFailedResponse_Valid ==
  [http |-> 200, valid |-> TRUE, reason |-> "valid"]
StatusApiFailedResponse ==
  [http |-> 500, valid |-> FALSE, reason |-> "Status API failed"]

\* Mutation of VerifyRespValid: the callback ignores the verdict.
VerifyRespValid_Ignored(resp) == TRUE

\* !verifyResp.data.valid, negated
VerifyRespValid(resp) == resp.valid

\* A terminated request.
Done(r, http, body) == [r EXCEPT !.pc = "done", !.http = http, !.body = body]

\* Request r once /verify_payment has answered resp.  A direct verification
\* ends with that answer.  In the callback axios.post throws on a non-2xx
\* answer (catch: 500), a verdict that is not valid ends with 400, and a valid
\* one goes on to saveTransaction, which first awaits isPaymentAlreadyProcessed.
AfterVerify(r, resp) ==
  IF r.kind = "verify" THEN Done(r, resp.http, resp.reason)
  ELSE IF resp.http # 200 THEN Done(r, 500, "Server error")
  ELSE IF ~VerifyRespValid(resp) THEN Done(r, 400, "Verification failed")
  ELSE [r EXCEPT !.pc = "save_check"]

\* Mutation of Logged: a failed post is rethrown and the handler answers 500.
Logged_Rethrown(r, delivered, next) ==
  IF delivered THEN next ELSE AfterVerify(r, StatusApiFailedResponse)

\* The request after `await saveVerificationLog(...)`: logToGoogleSheet
\* catches a failed post and only writes to the console, so the handler goes
\* on to next whether the row was delivered or not.
Logged(r, delivered, next) == next

\* The lock sets after a continuation that left its request as r: the finally
\* block of the callback runs whenever the handler returns from inside try.
Finally(r) ==
  IF r.kind = "callback" /\ r.pc = "done"
  THEN [processingPayments EXCEPT ![r.proc] = Release(@, GateKey(r))]
  ELSE processingPayments

Step(a, r) ==
  /\ att' = [att EXCEPT ![a] = r]
  /\ processingPayments' = Finally(r)

\* paymentResp.data as the gateway reports it, serialised
FullResponse(payment_id, status) ==
  "{id:" \o payment_id \o ",status:" \o status \o "}"

\* raw_data: JSON.stringify(log.full_response || log.error || {})
RawData(step, r) ==
  IF step = "STATUS_API" THEN FullResponse(r.payment_id, r.status)
  ELSE IF step = "STATUS_API_ERROR" THEN "Request failed"
  ELSE "{}"

\* Mutation of VerificationLogRow: `||` in place of `??`, so that a match
\* result of false is stored as the empty string.
VerificationLogRow_OrEmpty(step, r) ==
  [step |-> step, order_id |-> r.order_id, payment_id |-> r.payment_id,
   signature_matched |-> IF step = "SIGNATURE_VERIFICATION" /\ r.signatureMatched = "true"
                         THEN "true" ELSE "",
   razorpay_status |-> IF step = "STATUS_API" THEN r.status ELSE "",
   raw_data |-> RawData(step, r)]

\* the row saveVerificationLog posts to the 'verification_logs' sheet
VerificationLogRow(step, r) ==
  [step |-> step, order_id |-> r.order_id, payment_id |-> r.payment_id,
   signature_matched |-> IF step = "SIGNATURE_VERIFICATION" THEN r.signatureMatched ELSE "",
   razorpay_status |-> IF step = "STATUS_API" THEN r.status ELSE "",
   raw_data |-> RawData(step, r)]

\* the row saveTransaction posts to the 'transactions' sheet
TransactionRow(r) ==
  [order_id |-> r.order_id, payment_id |-> r.payment_id, status |-> "SUCCESS",
   amount |-> GatewayAmount(r.payment_id) \div 100]

\* logToGoogleSheet: the post reaches the sheet or fails; the failure is
\* caught and logged to the console, the caller sees no difference.
LogVerification(row, delivered) ==
  verification_logs' = IF delivered THEN verification_logs \cup {row} ELSE verification_logs

\* refs already produced by crypto.randomBytes
Issued == {att[b].token : b \in Attempts} \ {0}

\* the entry stored under global.successTokens[successToken]
TokenEntry(ref, r) ==
  [ref |-> ref, order_id |-> r.order_id, payment_id |-> r.payment_id,
   amount |-> GatewayAmount(r.payment_id) \div 100, expires |-> now + TOKEN_TTL]

\* lines 482-496: mint the token, answer with the success redirect
MintAndRedirect(a, r) ==
  \E ref \in Refs \ Issued :
    /\ successTokens' = [successTokens EXCEPT ![r.proc] = @ \cup {TokenEntry(ref, r)}]
    /\ Step(a, Done([r EXCEPT !.token = ref, !.mintedAt = now], 302, "payment_success.html"))

\* ----------------------------------------------------------------- actions
\* POST /payment_callback up to its first await (lines 423-452)
PaymentCallback(a, pr, req) ==
  /\ att[a].pc = "idle"
  /\ \A b \in Attempts : b < a => att[b].pc # "idle"
  /\ LET r == [Idle EXCEPT !.kind = "callback", !.proc = pr,
                           !.order_id = req.order_id, !.payment_id = req.payment_id,
                           !.signature = req.signature,
                           !.processed = SheetExists(req.order_id, req.payment_id)]
     IN IF ParamsMissing(req)
        THEN /\ att' = [att EXCEPT ![a] = Done(r, 400, "Missing parameters")]
             /\ processingPayments' =
                  [processingPayments EXCEPT ![pr] = EarlyReturn(@, GateKey(req))]
        ELSE IF GateBusy(pr, GateKey(req))
        THEN /\ att' = [att EXCEPT ![a] = Done(r, 409, "Duplicate request blocked")]
             /\ processingPayments' =
                  [processingPayments EXCEPT ![pr] = EarlyReturn(@, GateKey(req))]
        ELSE /\ att' = [att EXCEPT ![a] = [r EXCEPT !.pc = "cb_check", !.locked = TRUE]]
             /\ processingPayments' =
                  [processingPayments EXCEPT ![pr] = Acquire(@, GateKey(req))]
  /\ UNCHANGED <<successTokens, transactions, verification_logs, now, ticks, validations>>

\* the callback after isPaymentAlreadyProcessed (lines 449-465)
CallbackDuplicateCheck(a) ==
  /\ att[a].pc = "cb_check"
  /\ \E outcome \in LookupOutcomes :
       LET alreadyProcessed ==
             IsPaymentAlreadyProcessed(att[a].order_id, att[a].payment_id, outcome)
           r == Looked(att[a], outcome)
       IN IF alreadyProcessed
          THEN Step(a, Done(r, 409, "Duplicate payment ignored"))
          ELSE Step(a, [r EXCEPT !.pc = "v_check"])
  /\ UNCHANGED <<successTokens, transactions, verification_logs, now, ticks, validations>>

\* the callback's axios.post to /verify_payment fails before it is served
VerifyCallFails(a) ==
  /\ att[a].pc = "v_check"
  /\ att[a].kind = "callback"
  /\ Step(a, Done(att[a], 500, "Server error"))
  /\ UNCHANGED <<successTokens, transactions, verification_logs, now, ticks, validations>>

\* POST /verify_payment called directly, up to its first await (lines 150-155)
VerifyPayment(a, req) ==
  /\ att[a].pc = "idle"
  /\ \A b \in Attempts : b < a => att[b].pc # "idle"
  /\ att' = [att EXCEPT ![a] =
               [Idle EXCEPT !.kind = "verify", !.order_id = req.order_id,
                            !.payment_id = req.payment_id, !.signature = req.signature,
                            !.processed = SheetExists(req.order_id, req.payment_id),
                            !.pc = "v_check"]]
  /\ UNCHANGED <<processingPayments, successTokens, transactions, verification_logs, now, ticks, validations>>

\* /verify_payment after isPaymentAlreadyProcessed (lines 155-178)
VerifyDuplicateCheck(a) ==
  /\ att[a].pc = "v_check"
  /\ \E outcome \in LookupOutcomes :
       LET alreadyVerified ==
             IsPaymentAlreadyProcessed(att[a].order_id, att[a].payment_id, outcome)
           r == Looked(att[a], outcome)
       IN IF alreadyVerified
          THEN Step(a, AfterVerify(r, AlreadyProcessedResponse))
          ELSE Step(a, [r EXCEPT
                          !.pc = "v_siglog",
                          !.signatureMatched =
                             SignatureMatched(r.order_id, r.payment_id, r.signature)])
  /\ UNCHANGED <<successTokens, transactions, verification_logs, now, ticks, validations>>

\* /verify_payment after the SIGNATURE_VERIFICATION log (lines 170-197)
VerifySignatureLog(a) ==
  /\ att[a].pc = "v_siglog"
  /\ \E delivered \in BOOLEAN :
       /\ LogVerification(VerificationLogRow("SIGNATURE_VERIFICATION", att[a]), delivered)
       /\ LET r == [att[a] EXCEPT !.posts = @ + 1]
          IN IF r.signatureMatched # "true"
             THEN Step(a, Logged(r, delivered, AfterVerify(r, SignatureMismatchResponse)))
             ELSE Step(a, Logged(r, delivered, [r EXCEPT !.pc = "v_status"]))
  /\ UNCHANGED <<successTokens, transactions, now, ticks, validations>>

\* Mutation of StatusInquiryNext: a failed inquiry is logged and answered like
\* a response.
StatusInquiryNext_NoCatch(outcome) == "v_statlog"

\* where /verify_payment goes after `await axios.get(...)`: on to the
\* STATUS_API log when the gateway answered, into the catch block and its
\* STATUS_API_ERROR log when the request failed
StatusInquiryNext(outcome) ==
  IF outcome = "request_failed" THEN "v_errlog" ELSE "v_statlog"

\* /verify_payment after the gateway's status inquiry (lines 189-207, 221-228)
VerifyStatusInquiry(a) ==
  /\ att[a].pc = "v_status"
  /\ \E outcome \in GatewayStatuses \cup {"request_failed"} :
       Step(a, [att[a] EXCEPT !.status = outcome,
                              !.pc = StatusInquiryNext(outcome)])
  /\ UNCHANGED <<successTokens, transactions, verification_logs, now, ticks, validations>>

\* /verify_payment after the STATUS_API log (lines 200-219)
VerifyStatusLog(a) ==
  /\ att[a].pc = "v_statlog"
  /\ \E delivered \in BOOLEAN :
       /\ LogVerification(VerificationLogRow("STATUS_API", att[a]), delivered)
       /\ LET r == [att[a] EXCEPT !.posts = @ + 1]
          IN IF ~PaymentCaptured(r.status)
             THEN Step(a, Logged(r, delivered, AfterVerify(r, NotCapturedResponse)))
             ELSE Step(a, Logged(r, delivered, AfterVerify(r, ValidResponse)))
  /\ UNCHANGED <<successTokens, transactions, now, ticks, validations>>

\* /verify_payment after the STATUS_API_ERROR log (lines 221-234)
VerifyStatusErrorLog(a) ==
  /\ att[a].pc = "v_errlog"
  /\ \E delivered \in BOOLEAN :
       /\ LogVerification(VerificationLogRow("STATUS_API_ERROR", att[a]), delivered)
       /\ LET r == [att[a] EXCEPT !.posts = @ + 1]
          IN Step(a, Logged(r, delivered, AfterVerify(r, StatusApiFailedResponse)))
  /\ UNCHANGED <<successTokens, transactions, now, ticks, validations>>

\* saveTransaction after isPaymentAlreadyProcessed (lines 58-66), and, when
\* it returns early, the rest of the callback (lines 482-496)
SaveTransactionCheck(a) ==
  /\ att[a].pc = "save_check"
  /\ \E outcome \in LookupOutcomes :
       LET already == IsPaymentAlreadyProcessed(att[a].order_id, att[a].payment_id, outcome)
           r == Looked(att[a], outcome)
       IN IF already
          THEN MintAndRedirect(a, [r EXCEPT !.commit = "duplicate_prevented"])
          ELSE /\ Step(a, [r EXCEPT !.pc = "save_write"])
               /\ UNCHANGED successTokens
  /\ UNCHANGED <<transactions, verification_logs, now, ticks, validations>>

\* saveTransaction after logToGoogleSheet('transactions', ...) (lines 66-80),
\* then the rest of the callback (lines 482-496)
SaveTransactionWrite(a) ==
  /\ att[a].pc = "save_write"
  /\ \E delivered \in BOOLEAN :
       /\ transactions' = IF delivered THEN Append(transactions, TransactionRow(att[a]))
                                       ELSE transactions
       /\ MintAndRedirect(a, [att[a] EXCEPT
                                !.posts = @ + 1,
                                !.commit = IF delivered THEN "written" ELSE "write_failed"])
  /\ UNCHANGED <<verification_logs, now, ticks, validations>>

\* ------------------------------------------------- GET /validate_success
NoRef == 0                     \* req.query.ref absent

\* Mutation of TokenLookup: the map is not indexed by ref.
TokenLookup_AnyEntry(tokens, ref) == tokens

\* global.successTokens[ref]
TokenLookup(tokens, ref) == {e \in tokens : e.ref = ref}

\* Mutation of DeleteToken: the entry is left in the map.
DeleteToken_Kept(tokens, ref) == tokens

\* delete global.successTokens[ref]
DeleteToken(tokens, ref) == {e \in tokens : e.ref # ref}

\* Mutation of Expired: the expiry test is dropped.
Expired_Never(t, expires) == FALSE

\* Date.now() > data.expires
Expired(t, expires) == t > expires

\* res.status(403).json({ valid: false })
TokenForbiddenResponse ==
  [http |-> 403, valid |-> FALSE, order_id |-> "", payment_id |-> "", amount |-> 0]

\* res.json({ valid: true, order_id, payment_id, amount })
TokenValidResponse(data) ==
  [http |-> 200, valid |-> TRUE, order_id |-> data.order_id,
   payment_id |-> data.payment_id, amount |-> data.amount]

\* History: one call of /validate_success; found records whether the map of
\* the process held an entry under ref when the call was made.
Validation(pr, ref, resp) ==
  [proc |-> pr, ref |-> ref, at |-> now,
   found |-> \E e \in successTokens[pr] : e.ref = ref, resp |-> resp]

\* GET /validate_success (lines 529-551)
ValidateSuccess(pr, ref) ==
  /\ Len(validations) < MaxValidations
  /\ LET entries == TokenLookup(successTokens[pr], ref)
     IN IF ref = NoRef \/ entries = {}
        THEN /\ validations' = Append(validations, Validation(pr, ref, TokenForbiddenResponse))
             /\ UNCHANGED successTokens
        ELSE \E data \in entries :
               /\ successTokens' = [successTokens EXCEPT ![pr] = DeleteToken(@, ref)]
               /\ validations' =
                    Append(validations,
                           Validation(pr, ref, IF Expired(now, data.expires)
                                               THEN TokenForbiddenResponse
                                               ELSE TokenValidResponse(data)))
  /\ UNCHANGED <<processingPayments, transactions, verification_logs, now, att, ticks>>

\* The clock advances by a millisecond or by the time to live.  It is read
\* only when a token is minted or redeemed, so it is left alone while no
\* token is stored.
Tick(d) ==
  /\ ticks < MaxTicks
  /\ \E pr \in Procs : successTokens[pr] # {}
  /\ now' = now + d
  /\ ticks' = ticks + 1
  /\ UNCHANGED <<processingPayments, successTokens, transactions, verification_logs, att,
                 validations>>

Next ==
  \/ \E a \in Attempts, pr \in Procs, req \in CallbackRequests : PaymentCallback(a, pr, req)
  \/ \E a \in Attempts, req \in VerifyRequests : VerifyPayment(a, req)
  \/ \E a \in Attempts : CallbackDuplicateCheck(a)
  \/ \E a \in Attempts : VerifyCallFails(a)
  \/ \E a \in Attempts : VerifyDuplicateCheck(a)
  \/ \E a \in Attempts : VerifySignatureLog(a)
  \/ \E a \in Attempts : VerifyStatusInquiry(a)
  \/ \E a \in Attempts : VerifyStatusLog(a)
  \/ \E a \in Attempts : VerifyStatusErrorLog(a)
  \/ \E a \in Attempts : SaveTransactionCheck(a)
  \/ \E a \in Attempts : SaveTransactionWrite(a)

Spec == Init /\ [][Next]_vars

\* The callback together with the token exchange: callbacks that carry the
\* signature of their pair, the clock and /validate_success.  The token map
\* lives in the memory of one process, so the exchange is followed within one.
TokenProcs == {"proc_A"}
TokenRequests ==
  {req \in CallbackRequests :
     /\ req.order_id = "order_1" /\ req.payment_id \in Payments
     /\ req.signature = GeneratedSignature(req.order_id, req.payment_id)}

TokenNext ==
  \/ \E a \in Attempts, pr \in TokenProcs, req \in TokenRequests : PaymentCallback(a, pr, req)
  \/ \E a \in Attempts : CallbackDuplicateCheck(a)
  \/ \E a \in Attempts : VerifyCallFails(a)
  \/ \E a \in Attempts : VerifyDuplicateCheck(a)
  \/ \E a \in Attempts : VerifySignatureLog(a)
  \/ \E a \in Attempts : VerifyStatusInquiry(a)
  \/ \E a \in Attempts : VerifyStatusLog(a)
  \/ \E a \in Attempts : VerifyStatusErrorLog(a)
  \/ \E a \in Attempts : SaveTransactionCheck(a)
  \/ \E a \in Attempts : SaveTransactionWrite(a)
  \/ \E d \in {1, TOKEN_TTL} : Tick(d)
  \/ \E pr \in TokenProcs, ref \in Refs \cup {NoRef} : ValidateSuccess(pr, ref)

TokenSpec == Init /\ [][TokenNext]_vars

\* ------------------------------------------------------------ properties
Arrived == {a \in Attempts : att[a].pc # "idle"}
Finished == {a \in Attempts : att[a].pc = "done"}
Callbacks == {a \in Arrived : att[a].kind = "callback"}
SamePayload(a, b) ==
  /\ att[a].order_id = att[b].order_id
  /\ att[a].payment_id = att[b].payment_id
  /\ att[a].signature = att[b].signature
SuccessRowsOfPayment(payment_id) ==
  {i \in 1 .. Len(transactions) :
     transactions[i].payment_id = payment_id /\ transactions[i].status = "SUCCESS"}
SuccessRowsOfPair(order_id, payment_id) ==
  {i \in SuccessRowsOfPayment(payment_id) : transactions[i].order_id = order_id}
\* request a holds the gate: between processingPayments.add and the finally block
InGate(a) == att[a].locked /\ att[a].pc # "done"
Committed == {a \in Attempts : att[a].commit = "written"}

\* C1: when every request so far is a callback with one and the same payload,
\* delivered to one process, the transactions sheet holds at most one SUCCESS
\* row for each payment_id.
C1_AtMostOneSuccessRow ==
  (/\ Arrived = Callbacks
   /\ \A a, b \in Arrived : att[a].proc = att[b].proc /\ SamePayload(a, b))
  => \A p \in Payments : Cardinality(SuccessRowsOfPayment(p)) <= 1

\* C2: every SUCCESS row was written by a request whose received signature is
\* the HMAC of its order_id|payment_id and whose status inquiry reported
\* 'captured'; the sheet holds no other rows.
C2_SuccessNeedsSignatureAndCapture ==
  /\ \A a \in Committed :
       /\ att[a].signature = GeneratedSignature(att[a].order_id, att[a].payment_id)
       /\ att[a].status = "captured"
  /\ Len(transactions) = Cardinality(Committed)
  /\ \A i \in 1 .. Len(transactions) :
       \E a \in Committed : transactions[i] = TransactionRow(att[a])

C2_Witness == \E a \in Attempts : att[a].commit = "written" /\ att[a].pc = "done"

\* C3: a callback whose SUCCESS row failed to reach the sheet ends with the
\* error verdict (500) and mints no token.
C3_WriteFailureIsErrored ==
  \A a \in Finished :
    att[a].commit = "write_failed" => att[a].http = 500 /\ att[a].token = 0

\* C4: every finished request that carried its identifiers has submitted at
\* least one row to the sheet endpoint, whatever its verdict.
C4_EveryAttemptIsLogged ==
  \A a \in Finished : att[a].body # "Missing parameters" => att[a].posts >= 1

\* C5: the step that ends a callback which had acquired the gate leaves its
\* payment_id out of its process's lock set, on every exit path.
C5_GateReleasedOnExit ==
  [][\A a \in Attempts :
       (InGate(a) /\ att'[a].pc = "done")
       => att[a].payment_id \notin processingPayments'[att[a].proc]]_vars

C5_Witness ==
  \E a, b \in Finished :
    /\ att[a].locked /\ att[b].locked
    /\ att[a].proc = att[b].proc /\ att[a].payment_id = att[b].payment_id
    /\ att[a].http = 500 /\ att[b].http = 302
    /\ processingPayments[att[a].proc] = {}

\* C6: within one process no two callbacks for the same payment_id hold the
\* gate at once.
C6_OneHolderPerPayment ==
  \A a, b \in Attempts :
    (a # b /\ InGate(a) /\ InGate(b) /\ att[a].proc = att[b].proc)
    => att[a].payment_id # att[b].payment_id

C6_Witness ==
  \E a, b \in Attempts :
    /\ InGate(a) /\ att[a].pc = "save_write"
    /\ att[b].pc = "done" /\ att[b].body = "Duplicate request blocked"
    /\ att[a].proc = att[b].proc /\ SamePayload(a, b)

\* C7: a request whose signature matched and whose status inquiry reported a
\* status other than 'captured' commits nothing, mints no token and ends
\* rejected: 200 'Payment not captured' from /verify_payment, 400
\* 'Verification failed' from the callback.
C7_NotCapturedIsRejected ==
  \A a \in Attempts :
    (att[a].signatureMatched = "true" /\ att[a].status \in GatewayStatuses \ {"captured"})
    => /\ att[a].commit = "none" /\ att[a].token = 0
       /\ att[a].pc \in {"v_statlog", "done"}
       /\ (att[a].pc = "done" /\ att[a].kind = "verify")
            => att[a].http = 200 /\ att[a].body = "Payment not captured"
       /\ (att[a].pc = "done" /\ att[a].kind = "callback")
            => att[a].http = 400 /\ att[a].body = "Verification failed"

C7_Witness ==
  \E a, b \in Finished :
    /\ att[a].kind = "verify" /\ att[b].kind = "callback"
    /\ att[a].status = "authorized" /\ att[b].status = "authorized"

\* C8: a request whose status inquiry failed commits nothing, mints no token
\* and ends with 500; once it has ended it holds no lock, so the sheet, the
\* gate and the token map are as the request found them.
C8_StatusFailureIsErrored ==
  \A a \in Attempts :
    att[a].status = "request_failed"
    => /\ att[a].commit = "none" /\ att[a].token = 0
       /\ att[a].pc \in {"v_errlog", "done"}
       /\ att[a].pc = "done"
            => /\ att[a].http = 500
               /\ att[a].kind = "callback"
                    => \/ att[a].payment_id \notin processingPayments[att[a].proc]
                       \/ \E b \in Attempts \ {a} :
                            /\ InGate(b) /\ att[b].proc = att[a].proc
                            /\ att[b].payment_id = att[a].payment_id

\* a retry of the same callback after the failure reaches the success redirect
C8_Witness ==
  \E a, b \in Finished :
    /\ a < b /\ att[a].kind = "callback" /\ att[b].kind = "callback"
    /\ att[a].proc = att[b].proc /\ SamePayload(a, b)
    /\ att[a].status = "request_failed" /\ att[a].http = 500
    /\ att[b].status = "captured" /\ att[b].http = 302 /\ att[b].commit = "written"
    /\ Len(transactions) = 1

\* C9: when the same callback is handled by two processes and every ledger
\* lookup answers, the sheet never holds two SUCCESS rows for one
\* (order_id, payment_id).
C9_CommitArbitrates ==
  (/\ Arrived = Callbacks
   /\ \A a, b \in Arrived : SamePayload(a, b) /\ (a # b => att[a].proc # att[b].proc)
   /\ \A a \in Arrived : ~att[a].masked)
  => \A o \in Orders, p \in Payments : Cardinality(SuccessRowsOfPair(o, p)) <= 1

\* C10: a callback whose commit step found the SUCCESS row already present
\* ends as a duplicate (409) and mints no token.
C10_ConflictIsDuplicate ==
  \A a \in Finished :
    att[a].commit = "duplicate_prevented" => att[a].http = 409 /\ att[a].token = 0

\* C11: a callback that arrives with all its parameters while its payment_id
\* is in the lock set of its process ends at once with 409, having made no
\* lookup, no verification and no commit, and its step leaves the lock set,
\* the sheets and the token map as they were: the holder still holds the gate.
C11_BusyCallbackLeavesGate ==
  [][\A a \in Attempts :
       (/\ att[a].pc = "idle" /\ att'[a].kind = "callback"
        /\ ~ParamsMissing(att'[a])
        /\ att'[a].payment_id \in processingPayments[att'[a].proc])
       => /\ att'[a].pc = "done" /\ att'[a].http = 409
          /\ att'[a].signatureMatched = "unset" /\ att'[a].status = "unset"
          /\ att'[a].commit = "none" /\ att'[a].token = 0
          /\ att'[a].posts = 0 /\ ~att'[a].locked
          /\ processingPayments' = processingPayments
          /\ transactions' = transactions
          /\ verification_logs' = verification_logs
          /\ successTokens' = successTokens]_vars

C11_Witness ==
  \E a, b \in Attempts :
    /\ att[b].pc = "done" /\ att[b].http = 409 /\ ~att[b].locked
    /\ att[b].kind = "callback" /\ ~ParamsMissing(att[b])
    /\ InGate(a) /\ att[a].pc = "v_status"
    /\ att[a].proc = att[b].proc /\ att[a].payment_id = att[b].payment_id
    /\ att[a].payment_id \in processingPayments[att[a].proc]

\* C12: a callback that arrived with all its parameters when the sheet already
\* held a SUCCESS row of its pair has, once past its duplicate lookup, ended
\* with 409 without signature verification, status inquiry, commit or token.
C12_ProcessedCallbackIsDuplicate ==
  \A a \in Callbacks :
    (att[a].processed /\ ~ParamsMissing(att[a]) /\ att[a].pc # "cb_check")
    => /\ att[a].pc = "done" /\ att[a].http = 409
       /\ att[a].signatureMatched = "unset" /\ att[a].status = "unset"
       /\ att[a].commit = "none" /\ att[a].token = 0

\* the requests that minted the token a validation asked for
MintersOf(v) ==
  {a \in Attempts : v.ref # NoRef /\ att[a].token = v.ref /\ att[a].proc = v.proc}
\* the validation was made after the expiry time of the token it asked for
AfterExpiry(v) == \E a \in MintersOf(v) : v.at > att[a].mintedAt + TOKEN_TTL
Calls == 1 .. Len(validations)

\* C13: among the calls of /validate_success with one token at most one
\* answers valid:true, and every later call with that token answers 403
\* valid:false.
C13_TokenRedeemedAtMostOnce ==
  \A i, j \in Calls :
    (i < j /\ validations[i].ref = validations[j].ref /\ validations[i].resp.valid)
    => validations[j].resp = TokenForbiddenResponse

C13_Witness ==
  /\ Len(validations) = 2
  /\ validations[1].ref = validations[2].ref /\ validations[1].proc = validations[2].proc
  /\ validations[1].resp.valid /\ validations[1].resp.http = 200
  /\ validations[2].resp.http = 403

\* C14: a call of /validate_success made after the expiry time of its token
\* (mint time + 5 minutes) answers 403 and leaves no entry under the ref, so
\* every later call answers 403 as well; no call answers valid:true after
\* the expiry time.
C14_ExpiredTokenNeverRedeemed ==
  \A i \in Calls :
    LET v == validations[i]
    IN /\ AfterExpiry(v)
            => /\ v.resp = TokenForbiddenResponse
               /\ TokenLookup(successTokens[v.proc], v.ref) = {}
       /\ v.resp.valid
            => \E a \in MintersOf(v) : v.at <= att[a].mintedAt + 5 * 60 * 1000

C14_Witness ==
  /\ Len(validations) = 2
  /\ validations[1].ref = validations[2].ref /\ validations[1].proc = validations[2].proc
  /\ validations[1].found /\ AfterExpiry(validations[1])
  /\ ~validations[2].found
  /\ validations[1].resp.http = 403 /\ validations[2].resp.http = 403

\* C15: a finished direct verification of a pair that was not yet processed,
\* with the signature of the pair and status 'captured', answered valid and
\* the sheet holds exactly one SUCCESS row of its payment.
C15_DirectVerifyCommits ==
  \A a \in Finished :
    (/\ att[a].kind = "verify" /\ ~att[a].processed
     /\ att[a].signature = GeneratedSignature(att[a].order_id, att[a].payment_id)
     /\ att[a].status = "captured")
    => /\ att[a].http = 200 /\ att[a].body = "valid"
       /\ Cardinality(SuccessRowsOfPayment(att[a].payment_id)) = 1

\* the row a request suspended at a saveVerificationLog is posting
LogStepOf(pc) ==
  IF pc = "v_siglog" THEN "SIGNATURE_VERIFICATION"
  ELSE IF pc = "v_statlog" THEN "STATUS_API" ELSE "STATUS_API_ERROR"
PendingRow(a) == VerificationLogRow(LogStepOf(att[a].pc), att[a])
LogStep(a) == VerifySignatureLog(a) \/ VerifyStatusLog(a) \/ VerifyStatusErrorLog(a)
\* where a request can stand and what it can have answered after a log post
OutcomePcs == {"v_status", "save_check", "done"}
OutcomeHttps == {0, 200, 400, 500}
OutcomeBodies ==
  {"", "valid", "Signature mismatch", "Payment not captured", "Status API failed",
   "Verification failed", "Server error"}
\* the log post of request a fails (the sheet is left as it was)
LogFails(a) == LogStep(a) /\ verification_logs' = verification_logs
\* the log post of request a delivers a row the sheet did not hold
LogDelivers(a) == LogStep(a) /\ verification_logs' # verification_logs

\* C16: for a request suspended at an audit-log post whose row the sheet does
\* not hold yet, the positions, the HTTP codes and the answers it can reach
\* when the post fails are those it can reach when the post succeeds; in
\* particular the failure yields no 500 of its own.
C16_LogFailureKeepsVerdict ==
  \A a \in Attempts :
    (att[a].pc \in {"v_siglog", "v_statlog", "v_errlog"}
     /\ PendingRow(a) \notin verification_logs)
    => /\ \A pc \in OutcomePcs :
            (ENABLED (LogFails(a) /\ att'[a].pc = pc))
            <=> (ENABLED (LogDelivers(a) /\ att'[a].pc = pc))
       /\ \A http \in OutcomeHttps :
            (ENABLED (LogFails(a) /\ att'[a].http = http))
            <=> (ENABLED (LogDelivers(a) /\ att'[a].http = http))
       /\ \A body \in OutcomeBodies :
            (ENABLED (LogFails(a) /\ att'[a].body = body))
            <=> (ENABLED (LogDelivers(a) /\ att'[a].body = body))

\* a direct verification answered valid although both of its log posts failed
C16_Witness ==
  \E a \in Finished :
    /\ att[a].kind = "verify" /\ att[a].body = "valid" /\ att[a].posts = 2
    /\ \A row \in verification_logs :
         row.order_id # att[a].order_id \/ row.payment_id # att[a].payment_id

\* requests that have passed the SIGNATURE_VERIFICATION log of /verify_payment
PastSignatureStep ==
  {a \in Attempts : att[a].signatureMatched # "unset" /\ att[a].pc # "v_siglog"}

\* C17: every request past the signature step has posted a row to the sheet
\* endpoint; every SIGNATURE_VERIFICATION row the sheet holds carries the
\* match result, true or false, of a request with its identifiers; and a
\* request whose signature did not match is finished, rejected, with no
\* status inquiry made, no save attempted and no token.
C17_SignatureStepLoggedMismatchRejected ==
  /\ \A a \in PastSignatureStep : att[a].posts >= 1
  /\ \A row \in verification_logs :
       row.step = "SIGNATURE_VERIFICATION"
       => /\ row.signature_matched \in {"true", "false"}
          /\ \E a \in Attempts :
               /\ att[a].order_id = row.order_id /\ att[a].payment_id = row.payment_id
               /\ att[a].signatureMatched = row.signature_matched
  /\ \A a \in PastSignatureStep :
       att[a].signatureMatched = "false"
       => /\ att[a].pc = "done"
          /\ att[a].status = "unset" /\ att[a].commit = "none" /\ att[a].token = 0
          /\ att[a].posts = 1
          /\ IF att[a].kind = "verify"
             THEN att[a].http = 200 /\ att[a].body = "Signature mismatch"
             ELSE att[a].http = 400 /\ att[a].body = "Verification failed"

\* a rejected mismatch and an accepted match, both with their row in the sheet
C17_Witness ==
  \E a, b \in Finished :
    /\ att[a].signatureMatched = "false" /\ att[a].body = "Signature mismatch"
    /\ VerificationLogRow("SIGNATURE_VERIFICATION", att[a]) \in verification_logs
    /\ att[b].signatureMatched = "true"
    /\ VerificationLogRow("SIGNATURE_VERIFICATION", att[b]) \in verification_logs

\* C18: every entry of a process's token map was minted by a callback of that
\* process, for the entry's order_id and payment_id, whose signature matched,
\* whose status was 'captured' and whose SUCCESS row was written; and a
\* request holds a token only if it answered with the success redirect after
\* writing its row.
C18_TokenOnlyAfterCommit ==
  /\ \A pr \in Procs : \A e \in successTokens[pr] :
       \E a \in Callbacks :
         /\ att[a].token = e.ref /\ att[a].proc = pr
         /\ att[a].order_id = e.order_id /\ att[a].payment_id = e.payment_id
         /\ att[a].signatureMatched = "true" /\ att[a].status = "captured"
         /\ att[a].commit = "written"
  /\ \A a \in Attempts :
       att[a].token # 0
       => att[a].kind = "callback" /\ att[a].http = 302 /\ att[a].commit = "written"

\* C19: a call of /validate_success that found an entry under its token and
\* was made no later than the token's expiry time answers valid:true with the
\* order_id, the payment_id and the amount stored when that token was minted,
\* whatever other tokens the map holds.
C19_RedeemReturnsMinted ==
  \A i \in Calls :
    LET v == validations[i]
    IN (v.found /\ ~AfterExpiry(v))
       => /\ v.resp.http = 200 /\ v.resp.valid
          /\ \E a \in MintersOf(v) :
               /\ v.resp.order_id = att[a].order_id
               /\ v.resp.payment_id = att[a].payment_id
               /\ v.resp.amount = GatewayAmount(att[a].payment_id) \div 100

\* a token redeemed validly some time after a token for another payment was
\* minted in the same process, that other token still being stored
C19_Witness ==
  \E i \in Calls : \E a, b \in Finished :
    /\ validations[i].resp.valid
    /\ att[a].token = validations[i].ref /\ att[a].proc = validations[i].proc
    /\ att[b].token # 0 /\ att[b].token # att[a].token /\ att[b].proc = att[a].proc
    /\ att[b].payment_id # att[a].payment_id
    /\ att[b].mintedAt < validations[i].at
    /\ \E e \in successTokens[att[b].proc] : e.ref = att[b].token

\* C20: however the lookup settles, isPaymentAlreadyProcessed returns true
\* exactly when the sheet holds a SUCCESS row of the pair, and no request has
\* been given another answer by it.
C20_AlreadyProcessedIffRowExists ==
  /\ \A order_id \in Orders, payment_id \in Payments, outcome \in LookupOutcomes :
       IsPaymentAlreadyProcessed(order_id, payment_id, outcome)
       <=> SheetExists(order_id, payment_id)
  /\ \A a \in Attempts : ~att[a].masked

\* C21: a direct verification of a pair whose SUCCESS row the sheet held when
\* it arrived, once past its duplicate check, is finished with valid:false
\* 'Payment already processed', has posted no row, made no status inquiry and
\* committed nothing.
C21_ProcessedVerifyStopsAtCheck ==
  \A a \in Arrived :
    (att[a].kind = "verify" /\ att[a].processed /\ att[a].pc # "v_check")
    => /\ att[a].pc = "done"
       /\ att[a].http = 200 /\ att[a].body = "Payment already processed"
       /\ att[a].posts = 0 /\ att[a].signatureMatched = "unset"
       /\ att[a].status = "unset" /\ att[a].commit = "none"

\* requests whose status inquiry has settled and whose log of it has been posted
PastStatusLog ==
  {a \in Attempts : att[a].status # "unset" /\ att[a].pc \notin {"v_statlog", "v_errlog"}}

\* C22: a request whose status inquiry has settled has posted a second row
\* before it goes on or ends; a STATUS_API row in the sheet carries a status
\* the gateway reported for a request with its identifiers, and that raw
\* response; a STATUS_API_ERROR row belongs to a request whose inquiry
\* failed; and a response 'not captured' ends with HTTP 200 valid:false (400
\* for a callback) while a failed inquiry ends with HTTP 500.
C22_StatusOutcomeLoggedAndDistinct ==
  /\ \A a \in PastStatusLog : att[a].posts >= 2
  /\ \A row \in verification_logs :
       /\ row.step = "STATUS_API"
          => /\ row.razorpay_status \in GatewayStatuses
             /\ row.raw_data = FullResponse(row.payment_id, row.razorpay_status)
             /\ \E a \in Attempts :
                  /\ att[a].order_id = row.order_id /\ att[a].payment_id = row.payment_id
                  /\ att[a].status = row.razorpay_status
       /\ row.step = "STATUS_API_ERROR"
          => /\ row.raw_data = "Request failed"
             /\ \E a \in Attempts :
                  /\ att[a].order_id = row.order_id /\ att[a].payment_id = row.payment_id
                  /\ att[a].status = "request_failed"
  /\ \A a \in PastStatusLog :
       /\ att[a].status = "request_failed"
          => /\ att[a].pc = "done" /\ att[a].http = 500
             /\ att[a].body = IF att[a].kind = "verify" THEN "Status API failed"
                              ELSE "Server error"
       /\ (att[a].status \in GatewayStatuses /\ att[a].status # "captured")
          => /\ att[a].pc = "done"
             /\ IF att[a].kind = "verify"
                THEN att[a].http = 200 /\ att[a].body = "Payment not captured"
                ELSE att[a].http = 400 /\ att[a].body = "Verification failed"

\* a direct verification rejected as not captured and one errored on a failed
\* inquiry, each with its row in the sheet
C22_Witness ==
  \E a, b \in Finished :
    /\ att[a].kind = "verify" /\ att[a].status = "authorized" /\ att[a].http = 200
    /\ VerificationLogRow("STATUS_API", att[a]) \in verification_logs
    /\ att[b].kind = "verify" /\ att[b].status = "request_failed" /\ att[b].http = 500
    /\ VerificationLogRow("STATUS_API_ERROR", att[b]) \in verification_logs

\* the step is the arrival of callback a with all three parameters present
CallbackArrives(a) ==
  /\ att[a].pc = "idle" /\ att'[a].pc # "idle" /\ att'[a].kind = "callback"
  /\ att'[a].body # "Missing parameters"

\* C23: a callback that arrives at a process while a callback with the same
\* payment_id and another order_id is in flight there is answered 409
\* 'Duplicate request blocked' and does not enter the gate.
C23_GateKeyedByPaymentId ==
  [][\A a, b \in Attempts :
       (/\ CallbackArrives(a) /\ InGate(b)
        /\ att[b].proc = att'[a].proc
        /\ att[b].payment_id = att'[a].payment_id
        /\ att[b].order_id # att'[a].order_id)
       => /\ att'[a].pc = "done" /\ att'[a].http = 409
          /\ att'[a].body = "Duplicate request blocked" /\ ~att'[a].locked]_vars

\* a callback for (order_2, pay) blocked by the in-flight one for (order_1, pay)
C23_Witness ==
  \E a, b \in Attempts :
    /\ att[a].pc = "done" /\ att[a].body = "Duplicate request blocked"
    /\ InGate(b) /\ att[b].proc = att[a].proc
    /\ att[b].payment_id = att[a].payment_id /\ att[b].order_id # att[a].order_id

\* requests between their arrival and their answer
InFlight == {a \in Attempts : att[a].pc \notin {"idle", "done"}}

\* C24: a callback is answered 409 'Duplicate request blocked' only when a
\* callback with its own payment_id is in flight in its process; and a step
\* of a request leaves alone everything a request in flight for another
\* payment_id reads: its position and data, whether its payment_id is in the
\* lock set of its process, and whether the sheet holds the SUCCESS row of
\* its pair.
C24_DistinctPaymentsIndependent ==
  [][/\ \A a \in Attempts :
          (CallbackArrives(a) /\ att'[a].body = "Duplicate request blocked")
          => \E b \in Attempts :
               /\ InGate(b) /\ att[b].proc = att'[a].proc
               /\ att[b].payment_id = att'[a].payment_id
     /\ \A a \in InFlight, b \in Attempts :
          (att'[b] # att[b] /\ att'[b].payment_id # att[a].payment_id)
          => /\ att'[a] = att[a]
             /\ (att[a].payment_id \in processingPayments'[att[a].proc])
                <=> (att[a].payment_id \in processingPayments[att[a].proc])
             /\ SheetExists(att[a].order_id, att[a].payment_id)'
                <=> SheetExists(att[a].order_id, att[a].payment_id)]_vars

\* two callbacks for different payments in the gate of one process at once
C24_Witness ==
  \E a, b \in Attempts :
    /\ InGate(a) /\ InGate(b) /\ att[a].proc = att[b].proc
    /\ att[a].payment_id # att[b].payment_id
    /\ att[a].pc # "cb_check" /\ att[b].pc # "cb_check"

\* the payment_ids of the callbacks of process pr between add and the finally block
HeldBy(pr) == {att[a].payment_id : a \in {b \in Attempts : InGate(b) /\ att[b].proc = pr}}

\* C25: the lock set of every process is exactly the set of payment_ids of
\* its callbacks between gate acquisition and release; it is empty when the
\* process has no such callback.
C25_LockSetIsInFlightSet ==
  \A pr \in Procs : processingPayments[pr] = HeldBy(pr)

\* one callback of a process has acquired and released the gate and another
\* holds it: the set holds the payment_id of the second only
C25_Witness ==
  \E a, b \in Attempts :
    /\ att[a].pc = "done" /\ att[a].locked
    /\ InGate(b) /\ att[b].proc = att[a].proc
    /\ processingPayments[att[b].proc] = {att[b].payment_id}

\* the step is the arrival of callback a without one of its three parameters
IncompleteCallbackArrives(a) ==
  /\ att[a].pc = "idle" /\ att'[a].kind = "callback"
  /\ \/ att'[a].payment_id = Missing
     \/ att'[a].order_id = Missing
     \/ att'[a].signature = Missing

\* C26: a callback that arrives without payment_id, order_id or signature is
\* answered 400 'Missing parameters' at once, without entering the gate, and
\* its step leaves the lock sets, both sheets and the token maps as they were.
C26_MissingParametersTouchNothing ==
  [][\A a \in Attempts :
       IncompleteCallbackArrives(a)
       => /\ att'[a].pc = "done" /\ att'[a].http = 400
          /\ att'[a].body = "Missing parameters" /\ ~att'[a].locked
          /\ UNCHANGED <<processingPayments, transactions, verification_logs,
                         successTokens>>]_vars

\* a callback with a payment_id but no signature or order_id was turned away
\* while a callback holds the lock of that payment_id in the same process
C26_Witness ==
  \E a, b \in Attempts :
    /\ att[a].pc = "done" /\ att[a].body = "Missing parameters"
    /\ att[a].payment_id # Missing
    /\ InGate(b) /\ att[b].proc = att[a].proc /\ att[b].payment_id = att[a].payment_id
    /\ att[b].payment_id \in processingPayments[att[b].proc]

====
